---- MODULE Spec2Model ----
(***************************************************************************)
(* Model of the shell scripts of the CRE TypeScript skill:                 *)
(*   analyze-limits.sh     (src/unnamed/part_000, lines 22-94)             *)
(*   validate-workflow.sh  (src/references/concepts.md, lines 8-78)        *)
(*   simulate-workflow.sh  (src/scripts/simulate-workflow.sh, lines 1-40,  *)
(*                          and its default-target variant,                *)
(*                          src/references/concepts.md, lines 80-130)      *)
(*   check-cre-cli.sh      (src/scripts/simulate-workflow.sh, lines 42-56) *)
(*   fetch-docs.sh         (src/unnamed/part_000, lines 1-20)              *)
(*   get-chain-selector.sh (src/scripts/get-chain-selector.sh)             *)
(* and of the handlers of its workflow templates:                          *)
(*   HTTP trigger          (src/templates/workflow-http.ts, lines 1-113)   *)
(*   cron trigger          (src/templates/workflow-http.ts, lines 115-246) *)
(*   EVM log trigger       (src/unnamed/part_003, lines 1-193)             *)
(*   batched requests      (src/templates/workflow-post-request.ts,        *)
(*                          lines 103-193)                                 *)
(* One run of one script is one behaviour: Init fixes the script, its      *)
(* positional argument and the environment it runs in (is jq on the PATH,  *)
(* which files exist and what lines they hold); every action is one        *)
(* statement group of the script.                                          *)
(***************************************************************************)
EXTENDS Integers, Sequences, FiniteSets, TLC

(***************************************************************************)
(* Bounds of the model                                                     *)
(***************************************************************************)
\* number of files in the scanned tree (file 1 is the main source file)
MaxFiles == 2
\* largest number of lines of one shape in an additional file
MaxExtra == 1
\* largest number of arguments after the workflow path
MaxArgs == 2
\* largest number of bytes of a response body or of the output file
MaxBytes == 2

(***************************************************************************)
(* Program constants: the thresholds of analyze_limits                     *)
(***************************************************************************)
HttpLimit == 5
EvmLimit == 10
JsonLimit == 10
LoopLimit == 5
LogLimit == 20
SecretLimit == 0

Categories == {"http", "evm", "json", "loops", "logs", "secrets"}

\* the order in which analyze_limits runs its six greps
CategoryOrder == <<"http", "evm", "json", "loops", "logs", "secrets">>

Threshold(c) ==
    CASE c = "http" -> HttpLimit
      [] c = "evm" -> EvmLimit
      [] c = "json" -> JsonLimit
      [] c = "loops" -> LoopLimit
      [] c = "logs" -> LogLimit
      [] c = "secrets" -> SecretLimit

\* categories whose count between 1 and the threshold yields an info entry
HasInfo(c) == c \in {"http", "evm", "secrets"}

\* categories whose count above the threshold yields a warning
HasWarning(c) == c \in {"http", "evm", "json", "loops", "logs"}

(***************************************************************************)
(* Text.  A message is a sequence of tokens; a number is rendered as its   *)
(* decimal digits, one token per digit.                                    *)
(***************************************************************************)
DigitChar(d) ==
    CASE d = 0 -> "0" [] d = 1 -> "1" [] d = 2 -> "2" [] d = 3 -> "3"
      [] d = 4 -> "4" [] d = 5 -> "5" [] d = 6 -> "6" [] d = 7 -> "7"
      [] d = 8 -> "8" [] d = 9 -> "9"

RECURSIVE Digits(_)
Digits(n) == IF n < 10 THEN <<DigitChar(n)>>
             ELSE Digits(n \div 10) \o <<DigitChar(n % 10)>>

\* t occurs in m as a contiguous run of tokens
Embeds(m, t) ==
    \E i \in 1..(Len(m) - Len(t) + 1) : SubSeq(m, i, i + Len(t) - 1) = t

WarningMessage(c, n) ==
    CASE c = "http" ->
           <<"Found ">> \o Digits(n)
             \o <<" potential HTTP call sites - limit is ", "5", " per execution">>
      [] c = "evm" ->
           <<"Found ">> \o Digits(n)
             \o <<" potential EVM read sites - limit is ", "1", "0", " per execution">>
      [] c = "json" ->
           <<"Heavy JSON operations (">> \o Digits(n)
             \o <<" sites) - watch memory usage (", "1", "0", "0", "MB limit)">>
      [] c = "loops" ->
           <<"Found ">> \o Digits(n)
             \o <<" loop constructs - ensure they complete within ", "5", " minute timeout">>
      [] c = "logs" ->
           <<"Found ">> \o Digits(n)
             \o <<" console log calls - log lines are limited per execution">>

InfoMessage(c, n) ==
    CASE c = "http" ->
           <<"Found ">> \o Digits(n)
             \o <<" HTTP call site(s) - limit is ", "5", " per execution">>
      [] c = "evm" ->
           <<"Found ">> \o Digits(n)
             \o <<" EVM operation site(s) - limit is ", "1", "0", " reads per execution">>
      [] c = "secrets" ->
           <<"Uses ">> \o Digits(n)
             \o <<" secret(s) - max ", "1", "0", "0", " secrets per account">>

NoFilesMessage == <<"No TypeScript files found">>

(***************************************************************************)
(* The scanned tree.  A line is described by its shape: how many pattern   *)
(* occurrences of each category it holds.  A file is where it lies, its    *)
(* extension and how many lines of each shape it has.                      *)
(***************************************************************************)
Shapes == {"fetch", "httpClient.fetch", "read", "JSON.parse", "for (",
           "console.log", "runtime.getSecret", "console.log(JSON.stringify"}

\* number of occurrences of the patterns of category c on one line of shape s
Occ(s, c) ==
    CASE s = "fetch" -> IF c = "http" THEN 1 ELSE 0
      [] s = "httpClient.fetch" -> IF c = "http" THEN 2 ELSE 0
      [] s = "read" -> IF c = "evm" THEN 1 ELSE 0
      [] s = "JSON.parse" -> IF c = "json" THEN 1 ELSE 0
      [] s = "for (" -> IF c = "loops" THEN 1 ELSE 0
      [] s = "console.log" -> IF c = "logs" THEN 1 ELSE 0
      [] s = "runtime.getSecret" -> IF c = "secrets" THEN 2 ELSE 0
      [] s = "console.log(JSON.stringify" ->
           IF c \in {"logs", "json"} THEN 1 ELSE 0

NoLines == [s \in Shapes |-> 0]

Absent == [where |-> "absent", ts |-> FALSE, lines |-> NoLines]

\* the shape the main file uses for the lines of a category
MainShape(c, double) ==
    CASE c = "http" -> IF double THEN "httpClient.fetch" ELSE "fetch"
      [] c = "evm" -> "read"
      [] c = "json" -> "JSON.parse"
      [] c = "loops" -> "for ("
      [] c = "logs" -> "console.log"
      [] c = "secrets" -> "runtime.getSecret"

\* boundary values of a category's line count in the main file: at the limit
\* and one above it, and none for the categories that have an info branch
Reps(c) == {Threshold(c), Threshold(c) + 1} \cup (IF HasInfo(c) THEN {0} ELSE {})

\* lines of a file holding r[c] lines of category c, one occurrence per line
\* or (HTTP only, when double) two
LinesOf(r, double) ==
    [s \in Shapes |->
        IF \E c \in Categories : s = MainShape(c, double)
        THEN r[CHOOSE c \in Categories : s = MainShape(c, double)]
        ELSE 0]

MainLines ==
    { LinesOf([http |-> a, evm |-> b, json |-> c, loops |-> d, logs |-> e,
               secrets |-> g], dbl) :
        a \in Reps("http"), b \in Reps("evm"), c \in Reps("json"),
        d \in Reps("loops"), e \in Reps("logs"), g \in Reps("secrets"),
        dbl \in BOOLEAN }

\* a file above every limit, used for the files the scan must not count
RichLines == LinesOf([c \in Categories |-> Threshold(c) + 1], FALSE)

Unscanned ==
    { [where |-> "spaced", ts |-> TRUE, lines |-> RichLines],
      [where |-> "node_modules", ts |-> TRUE, lines |-> RichLines],
      [where |-> "plain", ts |-> FALSE, lines |-> RichLines] }

MainChoices ==
    {Absent} \cup Unscanned
    \cup { [where |-> "plain", ts |-> TRUE, lines |-> l] : l \in MainLines }

\* the line shapes of the additional files: one occurrence, two occurrences
\* of one category, and one occurrence of each of two categories
ExtraShapes == {"fetch", "httpClient.fetch", "console.log(JSON.stringify"}

ExtraChoices ==
    {Absent} \cup Unscanned
    \cup { [where |-> "plain", ts |-> TRUE,
            lines |-> [NoLines EXCEPT ![s] = n]] :
                s \in ExtraShapes, n \in 1..MaxExtra }

Trees ==
    { [f \in 1..MaxFiles |-> IF f = 1 THEN m ELSE e[f]] :
        m \in MainChoices, e \in [2..MaxFiles -> ExtraChoices] }

NoTree == [f \in 1..MaxFiles |-> Absent]

(***************************************************************************)
(* What the shell commands of analyze-limits.sh compute                    *)
(***************************************************************************)
\* the first positional argument, or "." when it is unset or empty
DefaultPath(args) == IF Len(args) = 0 \/ args[1] = "" THEN "." ELSE args[1]

\* find without its -not -path "*/node_modules/*" test
FindTsAnywhere(t) ==
    SelectSeq([f \in 1..MaxFiles |-> f],
              LAMBDA f : /\ t[f].where \in {"plain", "spaced", "node_modules"}
                         /\ t[f].ts)

\* find "$WORKFLOW_PATH" -name "*.ts" -not -path "*/node_modules/*"
FindTs(t) ==
    SelectSeq([f \in 1..MaxFiles |-> f],
              LAMBDA f : /\ t[f].where \in {"plain", "spaced"}
                         /\ t[f].ts)

\* the unquoted $ts_files: a path holding whitespace is split into words
\* that name no file, so grep reads only the paths without whitespace
GrepArgs(t, files) == SelectSeq(files, LAMBDA f : t[f].where = "plain")

\* the sum of the values of a function with a finite domain
RECURSIVE SumFn(_)
SumFn(f) ==
    IF DOMAIN f = {} THEN 0
    ELSE LET x == CHOOSE y \in DOMAIN f : TRUE
         IN  f[x] + SumFn([y \in DOMAIN f \ {x} |-> f[y]])

\* grep -o: one output line per occurrence instead of one per matching line
MatchingOccurrences(file, c) ==
    SumFn([s \in Shapes |-> Occ(s, c) * file.lines[s]])

\* lines of one file that hold at least one pattern of category c
MatchingLines(file, c) ==
    SumFn([s \in Shapes |-> IF Occ(s, c) > 0 THEN file.lines[s] ELSE 0])

\* grep -r <patterns of c> $ts_files | wc -l
RECURSIVE GrepCount(_, _, _)
GrepCount(t, files, c) ==
    IF files = <<>> THEN 0
    ELSE MatchingLines(t[Head(files)], c) + GrepCount(t, Tail(files), c)

\* the threshold test with -ge in place of -gt
ClassifyAtLimit(c, n) ==
    IF HasWarning(c) /\ n >= Threshold(c)
    THEN [warnings |-> <<WarningMessage(c, n)>>, info |-> <<>>]
    ELSE IF HasInfo(c) /\ n > 0
    THEN [warnings |-> <<>>, info |-> <<InfoMessage(c, n)>>]
    ELSE [warnings |-> <<>>, info |-> <<>>]

\* the threshold test with two separate ifs in place of if/elif
ClassifyIndependent(c, n) ==
    [warnings |-> IF HasWarning(c) /\ n > Threshold(c)
                  THEN <<WarningMessage(c, n)>> ELSE <<>>,
     info |-> IF HasInfo(c) /\ n > 0 THEN <<InfoMessage(c, n)>> ELSE <<>>]

\* the threshold test of one category: what is appended to the two arrays
Classify(c, n) ==
    IF HasWarning(c) /\ n > Threshold(c)
    THEN [warnings |-> <<WarningMessage(c, n)>>, info |-> <<>>]
    ELSE IF HasInfo(c) /\ n > 0
    THEN [warnings |-> <<>>, info |-> <<InfoMessage(c, n)>>]
    ELSE [warnings |-> <<>>, info |-> <<>>]

\* printf '%s\n' "${arr[@]}": one line per element, and one empty line when
\* the array has no element
PrintfLines(arr) == IF arr = <<>> THEN << <<>> >> ELSE arr

\* printf '%s\n' "${arr[@]}" | jq -R . | jq -s . : every line read becomes
\* one string of the array
JqArray(arr) == PrintfLines(arr)

\* echo "$ts_files" | wc -l
WcLines(files) == IF files = <<>> THEN 1 ELSE Len(files)

JqMissing == [success |-> FALSE,
              error |-> <<"jq is required but not installed">>]

(***************************************************************************)
(* What validate-workflow.sh tests                                         *)
(***************************************************************************)
\* the paths, relative to the workflow directory, whose existence is tested
ValidatorPaths == {"workflow.yaml", "src/index.ts", "index.ts", "package.json",
                   "tsconfig.json", "config/", "config/config.json"}

\* files of a workflow directory that validate_workflow has no test for
UntestedPaths == {"main.ts"}

\* the directory contents the validator can meet
Layouts == { P \in SUBSET (ValidatorPaths \cup UntestedPaths) :
                "config/config.json" \in P => "config/" \in P }

MissingWorkflowYaml == <<"Missing workflow.yaml">>
MissingEntryPoint == <<"Missing TypeScript entry point (src/index.ts or index.ts)">>
MissingPackageJson == <<"Missing package.json - may need npm init">>
MissingTsconfig == <<"Missing tsconfig.json - TypeScript config recommended">>
MissingConfigJson == <<"config/ exists but no config.json found">>

(***************************************************************************)
(* Command-line arguments of simulate-workflow.sh.  A string is the         *)
(* sequence of its whitespace-separated words, a word the sequence of the   *)
(* pieces it is made of; the piece "--target" is the text the wrapper       *)
(* looks for.  An argument is a string.                                     *)
(***************************************************************************)
TargetFlag == << <<"--target">> >>
TargetValue == << <<"production-settings">> >>
\* --target-dir: another flag whose text holds "--target"
TargetDirFlag == << <<"--target", "-dir">> >>
\* an argument with a blank in it
Payload == << <<"{a:">>, <<"1}">> >>
OtherFlag == << <<"--non-interactive">> >>
EmptyArg == << >>

SampleArgs == {TargetFlag, TargetValue, TargetDirFlag, Payload, OtherFlag,
               EmptyArg}

RECURSIVE SeqsUpTo(_, _)
SeqsUpTo(S, n) ==
    IF n = 0 THEN {<<>>}
    ELSE LET shorter == SeqsUpTo(S, n - 1)
         IN  shorter \cup {Append(q, x) : q \in shorter, x \in S}

ExtraArgLists == SeqsUpTo(SampleArgs, MaxArgs)

\* "$@" inside double quotes in an assignment: the arguments joined by blanks
RECURSIVE JoinArgs(_)
JoinArgs(list) ==
    IF list = <<>> THEN <<>> ELSE Head(list) \o JoinArgs(Tail(list))

\* an unquoted expansion: every word of the string becomes one argument
SplitWords(str) == [i \in 1..Len(str) |-> <<str[i]>>]

\* [[ "$str" == *"--target"* ]]
HasTargetText(str) ==
    \E i \in 1..Len(str) : \E j \in 1..Len(str[i]) : str[i][j] = "--target"

\* DEFAULT_TARGET="staging-settings"
DEFAULT_TARGET == <<"staging-settings">>

\* "--target $DEFAULT_TARGET $EXTRA_ARGS"
WithDefaultTarget(str) == << <<"--target">>, DEFAULT_TARGET >> \o str

\* the exit statuses the cre command is run with in the model
ExitCodes == {0, 1, 2, 255}

SimulateScripts == {"simulate-workflow", "simulate-workflow-default"}

CliMissing ==
    [success |-> FALSE,
     error |-> <<"CRE CLI not installed. Run ./scripts/check-cre-cli.sh for installation instructions">>]

PathNotFound(path) ==
    [success |-> FALSE, error |-> <<"Workflow path not found: ", path>>]

(***************************************************************************)
(* check-cre-cli.sh, fetch-docs.sh and get-chain-selector.sh               *)
(***************************************************************************)
CliNotFound == <<"CRE CLI not found. Install from https://cre.chain.link">>
InstallInstructions == <<"Visit https://docs.chain.link/cre to install the CRE CLI">>

DOCS_URL == "https://docs.chain.link/cre/llms-full-ts.txt"
OUTPUT_FILE == "/tmp/cre-docs-full.txt"

\* what curl can do: fetch the whole body, fail before it opens the output
\* file, or fail after it wrote a part of the body
CurlOutcomes == {"ok", "failed", "failed-partial"}

\* the HTTP status of the response curl gets
HttpStatuses == {200, 404, 500}

\* the length of the output file, NoFile when it does not exist
NoFile == -1
FileStates == {NoFile} \cup 0..MaxBytes

\* the first column of the chains array
chains == <<"Arbitrum One", "Arbitrum Sepolia", "Avalanche Mainnet",
            "Avalanche Fuji", "Base Mainnet", "Base Sepolia",
            "BNB Chain Mainnet", "BNB Chain Testnet", "Ethereum Mainnet",
            "Ethereum Sepolia", "OP Mainnet", "OP Sepolia", "Polygon Mainnet",
            "Polygon Amoy">>

(***************************************************************************)
(* State                                                                   *)
(***************************************************************************)
VARIABLES
    script,         \* the script this run executes
    pc,             \* the statement the run is at
    args,           \* the positional arguments of the invocation
    jqInstalled,    \* environment: is jq on the PATH
    dirExists,      \* environment: does the target directory exist
    tree,           \* environment: the files under the target (analyzer)
    present,        \* environment: the tested paths that exist (validator)
    WORKFLOW_PATH,
    ts_files,       \* analyze_limits: the paths find printed
    counts,         \* analyze_limits: http_calls, evm_reads, json_parse,
                    \*   loops, logs, secrets
    warnings, info, errors, found_files,
    stdout,         \* the objects printed so far
    exitCode,       \* the exit status, -1 while the script runs
    jqChecks,       \* how often "command -v jq" ran
    finds,          \* how often find ran
    greps,          \* how often grep ran
    tests,          \* how many -f / -d tests ran
    extraArgs,      \* the positional arguments after the first
    creInstalled,   \* environment: is cre on the PATH
    creVersionOk,   \* environment: does "cre --version" succeed
    dirEnterable,   \* environment: can the target directory be entered
    creExit,        \* environment: the status cre exits with when it is run
    curlOutcome,    \* environment: what the fetch does
    bodyBytes,      \* environment: the bytes curl writes
    httpStatus,     \* environment: the status line of the response
    docsBefore,     \* the output file as the run found it
    docsFile,       \* the output file
    EXTRA_ARGS, CMD_ARGS, EXIT_CODE,
    creCalls,       \* the argument lists cre was run with
    creChecks,      \* how often "command -v cre" ran
    curlRuns,       \* how often curl ran
    httpCalls,      \* template handler: HTTP requests made so far
    evmReads,       \* template handler: readContract calls made so far
    evmWrites,      \* template handler: writeContract calls made so far
    responses,      \* fetchData: the responses awaited so far
    reserves,       \* fetchData: the reserves array
    emitted         \* HTTP trigger handler: the statusCode of runtime.emit,
                    \*   0 before it

vars == <<script, pc, args, jqInstalled, dirExists, tree, present,
          WORKFLOW_PATH, ts_files, counts, warnings, info, errors,
          found_files, stdout, exitCode, jqChecks, finds, greps, tests,
          extraArgs, creInstalled, creVersionOk, dirEnterable, creExit,
          curlOutcome, bodyBytes, httpStatus, docsBefore, docsFile, EXTRA_ARGS,
          CMD_ARGS, EXIT_CODE, creCalls, creChecks, curlRuns, httpCalls,
          evmReads, evmWrites, responses, reserves, emitted>>

\* the variables of the template handlers
handler == <<httpCalls, evmReads, evmWrites, responses, reserves, emitted>>

\* what analyze-limits.sh and validate-workflow.sh have no statement for
outside == <<extraArgs, creInstalled, creVersionOk, dirEnterable, creExit,
             curlOutcome, bodyBytes, httpStatus, docsBefore, docsFile,
             EXTRA_ARGS, CMD_ARGS, EXIT_CODE, creCalls, creChecks, curlRuns,
             handler>>

env == <<script, args, jqInstalled, dirExists, tree, present, outside>>

\* the environment of the scripts that have no statement for jq or find,
\* and what no script has a statement for
given == <<script, args, jqInstalled, dirExists, tree, present, extraArgs,
           creInstalled, creVersionOk, dirEnterable, creExit, curlOutcome,
           bodyBytes, httpStatus, docsBefore, handler>>

\* the variables of analyze_limits and validate_workflow
analysis == <<ts_files, counts, warnings, info, errors, found_files,
              jqChecks, finds, greps, tests>>

JqScripts == {"analyze-limits", "validate-workflow"}

Scripts == JqScripts \cup SimulateScripts
           \cup {"check-cre-cli", "fetch-docs", "get-chain-selector"}

\* the statement a script starts at
StartOf(s) ==
    CASE s \in JqScripts -> "assign"
      [] s \in SimulateScripts -> "shift"
      [] s = "check-cre-cli" -> "check_cli"
      [] s = "fetch-docs" -> "fetch_docs"
      [] s = "get-chain-selector" -> "header"

ArgLists == {<<>>, <<"">>, <<"wf">>}

Init ==
    /\ script \in Scripts
    /\ pc = StartOf(script)
    /\ args \in IF script \in JqScripts \cup SimulateScripts
                THEN ArgLists ELSE {<<>>}
    /\ jqInstalled \in IF script \in JqScripts THEN BOOLEAN ELSE {TRUE}
    /\ dirExists \in IF script \in JqScripts \cup SimulateScripts
                     THEN BOOLEAN ELSE {TRUE}
    /\ extraArgs \in IF script \in SimulateScripts /\ Len(args) > 0
                     THEN ExtraArgLists ELSE {<<>>}
    /\ creInstalled \in IF script \in SimulateScripts \cup {"check-cre-cli"}
                        THEN BOOLEAN ELSE {TRUE}
    /\ creVersionOk \in IF script = "check-cre-cli" /\ creInstalled
                        THEN BOOLEAN ELSE {TRUE}
    /\ dirEnterable \in IF script \in SimulateScripts /\ dirExists
                        THEN BOOLEAN ELSE {dirExists}
    /\ creExit \in IF script \in SimulateScripts THEN ExitCodes ELSE {0}
    /\ curlOutcome \in IF script = "fetch-docs" THEN CurlOutcomes ELSE {"ok"}
    /\ bodyBytes \in IF script = "fetch-docs" THEN 0..MaxBytes ELSE {0}
    /\ httpStatus \in IF script = "fetch-docs" THEN HttpStatuses ELSE {200}
    /\ docsBefore \in IF script = "fetch-docs" THEN FileStates ELSE {NoFile}
    /\ docsFile = docsBefore
    /\ EXTRA_ARGS = <<>>
    /\ CMD_ARGS = <<>>
    /\ EXIT_CODE = 0
    /\ creCalls = <<>>
    /\ creChecks = 0
    /\ curlRuns = 0
    /\ httpCalls = 0
    /\ evmReads = 0
    /\ evmWrites = 0
    /\ responses = <<>>
    /\ reserves = <<>>
    /\ emitted = 0
    /\ tree \in IF script = "analyze-limits" /\ dirExists
                THEN Trees ELSE {NoTree}
    /\ present \in IF script = "validate-workflow" /\ dirExists
                   THEN Layouts ELSE {{}}
    /\ WORKFLOW_PATH = ""
    /\ ts_files = <<>>
    /\ counts = [c \in Categories |-> 0]
    /\ warnings = <<>>
    /\ info = <<>>
    /\ errors = <<>>
    /\ found_files = <<>>
    /\ stdout = <<>>
    /\ exitCode = -1
    /\ jqChecks = 0
    /\ finds = 0
    /\ greps = 0
    /\ tests = 0

(***************************************************************************)
(* Statements shared by the two scripts                                    *)
(***************************************************************************)
\* WORKFLOW_PATH="${1:-.}"
AssignPath ==
    /\ pc = "assign"
    /\ WORKFLOW_PATH' = DefaultPath(args)
    /\ pc' = "jqcheck"
    /\ UNCHANGED <<env, ts_files, counts, warnings, info, errors, found_files,
                   stdout, exitCode, jqChecks, finds, greps, tests>>

\* the jq check without its exit 1: the failure is printed and the run goes on
JqCheckNoExit ==
    /\ pc = "jqcheck"
    /\ jqChecks' = jqChecks + 1
    /\ stdout' = IF jqInstalled THEN stdout ELSE Append(stdout, JqMissing)
    /\ pc' = IF script = "analyze-limits" THEN "find" ELSE "workflow.yaml"
    /\ UNCHANGED <<env, WORKFLOW_PATH, ts_files, counts, warnings, info,
                   errors, found_files, exitCode, finds, greps, tests>>

\* if ! command -v jq; then echo failure; exit 1; fi, then the function call
JqCheck ==
    /\ pc = "jqcheck"
    /\ jqChecks' = jqChecks + 1
    /\ IF jqInstalled
       THEN /\ pc' = IF script = "analyze-limits" THEN "find"
                     ELSE "workflow.yaml"
            /\ UNCHANGED <<stdout, exitCode>>
       ELSE /\ stdout' = Append(stdout, JqMissing)
            /\ exitCode' = 1
            /\ pc' = "done"
    /\ UNCHANGED <<env, WORKFLOW_PATH, ts_files, counts, warnings, info,
                   errors, found_files, finds, greps, tests>>

(***************************************************************************)
(* analyze_limits                                                          *)
(***************************************************************************)
NoFilesReport(path) ==
    [success |-> TRUE, path |-> path, warnings |-> <<>>,
     info |-> <<NoFilesMessage>>]

\* find failing the run when the directory does not exist
FindOrFail ==
    /\ pc = "find"
    /\ finds' = finds + 1
    /\ ts_files' = FindTs(tree)
    /\ IF ts_files' = <<>>
       THEN /\ stdout' = Append(stdout, NoFilesReport(WORKFLOW_PATH))
            /\ exitCode' = IF dirExists THEN 0 ELSE 1
            /\ pc' = "done"
       ELSE /\ pc' = CategoryOrder[1]
            /\ UNCHANGED <<stdout, exitCode>>
    /\ UNCHANGED <<env, WORKFLOW_PATH, counts, warnings, info, errors,
                   found_files, jqChecks, greps, tests>>

\* local ts_files=$(find ...); the zero-files report and return
Find ==
    /\ pc = "find"
    /\ finds' = finds + 1
    /\ ts_files' = FindTs(tree)
    /\ IF ts_files' = <<>>
       THEN /\ stdout' = Append(stdout, NoFilesReport(WORKFLOW_PATH))
            /\ exitCode' = 0
            /\ pc' = "done"
       ELSE /\ pc' = CategoryOrder[1]
            /\ UNCHANGED <<stdout, exitCode>>
    /\ UNCHANGED <<env, WORKFLOW_PATH, counts, warnings, info, errors,
                   found_files, jqChecks, greps, tests>>

NextAfter(c) ==
    LET i == CHOOSE k \in 1..Len(CategoryOrder) : CategoryOrder[k] = c
    IN  IF i = Len(CategoryOrder) THEN "build" ELSE CategoryOrder[i + 1]

\* local n=$(grep -r ... $ts_files | wc -l | tr -d ' ') and its if/elif
Count(c) ==
    /\ pc = c
    /\ greps' = greps + 1
    /\ counts' = [counts EXCEPT ![c] = GrepCount(tree, GrepArgs(tree, ts_files), c)]
    /\ warnings' = warnings \o Classify(c, counts'[c]).warnings
    /\ info' = info \o Classify(c, counts'[c]).info
    /\ pc' = NextAfter(c)
    /\ UNCHANGED <<env, WORKFLOW_PATH, ts_files, errors, found_files, stdout,
                   exitCode, jqChecks, finds, tests>>

LimitsReport(path, w, i, files) ==
    [success |-> TRUE, path |-> path, warnings |-> JqArray(w),
     info |-> JqArray(i), files_analyzed |-> WcLines(files)]

\* warnings_json, info_json and the final echo
BuildLimitsReport ==
    /\ pc = "build"
    /\ script = "analyze-limits"
    /\ stdout' = Append(stdout,
                        LimitsReport(WORKFLOW_PATH, warnings, info, ts_files))
    /\ exitCode' = 0
    /\ pc' = "done"
    /\ UNCHANGED <<env, WORKFLOW_PATH, ts_files, counts, warnings, info,
                   errors, found_files, jqChecks, finds, greps, tests>>

(***************************************************************************)
(* validate_workflow                                                       *)
(***************************************************************************)
\* [[ -f "$WORKFLOW_PATH/<p>" ]] and [[ -d "$WORKFLOW_PATH/<p>" ]]
Exists(p) == dirExists /\ p \in present

validatorFrame == <<env, WORKFLOW_PATH, ts_files, counts, info, stdout,
                    exitCode, jqChecks, finds, greps>>

\* the workflow.yaml test preceded by the wrapper's "path not found" exit
CheckWorkflowYamlOrFail ==
    /\ pc = "workflow.yaml"
    /\ tests' = tests + 1
    /\ IF ~dirExists
       THEN /\ stdout' = Append(stdout,
                            [success |-> FALSE,
                             error |-> <<"Workflow path not found: ", WORKFLOW_PATH>>])
            /\ exitCode' = 1
            /\ pc' = "done"
            /\ UNCHANGED <<errors, found_files>>
       ELSE /\ IF Exists("workflow.yaml")
               THEN /\ found_files' = Append(found_files, <<"workflow.yaml">>)
                    /\ UNCHANGED errors
               ELSE /\ errors' = Append(errors, MissingWorkflowYaml)
                    /\ UNCHANGED found_files
            /\ pc' = "entry"
            /\ UNCHANGED <<stdout, exitCode>>
    /\ UNCHANGED <<env, WORKFLOW_PATH, ts_files, counts, info, jqChecks,
                   finds, greps, warnings>>

CheckWorkflowYaml ==
    /\ pc = "workflow.yaml"
    /\ tests' = tests + 1
    /\ IF Exists("workflow.yaml")
       THEN /\ found_files' = Append(found_files, <<"workflow.yaml">>)
            /\ UNCHANGED errors
       ELSE /\ errors' = Append(errors, MissingWorkflowYaml)
            /\ UNCHANGED found_files
    /\ pc' = "entry"
    /\ UNCHANGED <<validatorFrame, warnings>>

\* the entry-point test with two separate ifs: one error per missing location
CheckEntryPointBoth ==
    /\ pc = "entry"
    /\ tests' = tests + 2
    /\ found_files' = found_files
          \o (IF Exists("src/index.ts") THEN << <<"src/index.ts">> >> ELSE <<>>)
          \o (IF Exists("index.ts") THEN << <<"index.ts">> >> ELSE <<>>)
    /\ errors' = errors
          \o (IF Exists("src/index.ts") THEN <<>> ELSE <<MissingEntryPoint>>)
          \o (IF Exists("index.ts") THEN <<>> ELSE <<MissingEntryPoint>>)
    /\ pc' = "package.json"
    /\ UNCHANGED <<validatorFrame, warnings>>

\* the entry-point test with a third branch that accepts main.ts
CheckEntryPointOrMain ==
    /\ pc = "entry"
    /\ IF Exists("src/index.ts")
       THEN /\ tests' = tests + 1
            /\ found_files' = Append(found_files, <<"src/index.ts">>)
            /\ UNCHANGED errors
       ELSE IF Exists("index.ts")
       THEN /\ tests' = tests + 2
            /\ found_files' = Append(found_files, <<"index.ts">>)
            /\ UNCHANGED errors
       ELSE /\ tests' = tests + 3
            /\ IF Exists("main.ts")
               THEN /\ found_files' = Append(found_files, <<"main.ts">>)
                    /\ UNCHANGED errors
               ELSE /\ errors' = Append(errors, MissingEntryPoint)
                    /\ UNCHANGED found_files
    /\ pc' = "package.json"
    /\ UNCHANGED <<validatorFrame, warnings>>

CheckEntryPoint ==
    /\ pc = "entry"
    /\ IF Exists("src/index.ts")
       THEN /\ tests' = tests + 1
            /\ found_files' = Append(found_files, <<"src/index.ts">>)
            /\ UNCHANGED errors
       ELSE /\ tests' = tests + 2
            /\ IF Exists("index.ts")
               THEN /\ found_files' = Append(found_files, <<"index.ts">>)
                    /\ UNCHANGED errors
               ELSE /\ errors' = Append(errors, MissingEntryPoint)
                    /\ UNCHANGED found_files
    /\ pc' = "package.json"
    /\ UNCHANGED <<validatorFrame, warnings>>

\* the package.json test with the miss classed as an error
CheckPackageJsonRequired ==
    /\ pc = "package.json"
    /\ tests' = tests + 1
    /\ IF Exists("package.json")
       THEN /\ found_files' = Append(found_files, <<"package.json">>)
            /\ UNCHANGED errors
       ELSE /\ errors' = Append(errors, MissingPackageJson)
            /\ UNCHANGED found_files
    /\ pc' = "tsconfig.json"
    /\ UNCHANGED <<validatorFrame, warnings>>

CheckPackageJson ==
    /\ pc = "package.json"
    /\ tests' = tests + 1
    /\ IF Exists("package.json")
       THEN /\ found_files' = Append(found_files, <<"package.json">>)
            /\ UNCHANGED warnings
       ELSE /\ warnings' = Append(warnings, MissingPackageJson)
            /\ UNCHANGED found_files
    /\ pc' = "tsconfig.json"
    /\ UNCHANGED <<validatorFrame, errors>>

\* the tsconfig.json test with the miss classed as an error
CheckTsconfigRequired ==
    /\ pc = "tsconfig.json"
    /\ tests' = tests + 1
    /\ IF Exists("tsconfig.json")
       THEN /\ found_files' = Append(found_files, <<"tsconfig.json">>)
            /\ UNCHANGED errors
       ELSE /\ errors' = Append(errors, MissingTsconfig)
            /\ UNCHANGED found_files
    /\ pc' = "config"
    /\ UNCHANGED <<validatorFrame, warnings>>

CheckTsconfig ==
    /\ pc = "tsconfig.json"
    /\ tests' = tests + 1
    /\ IF Exists("tsconfig.json")
       THEN /\ found_files' = Append(found_files, <<"tsconfig.json">>)
            /\ UNCHANGED warnings
       ELSE /\ warnings' = Append(warnings, MissingTsconfig)
            /\ UNCHANGED found_files
    /\ pc' = "config"
    /\ UNCHANGED <<validatorFrame, errors>>

\* the config test writing a config.json into a config/ that has none
CheckConfigCreating ==
    /\ pc = "config"
    /\ IF Exists("config/")
       THEN /\ tests' = tests + 2
            /\ found_files' = found_files
                                \o << <<"config/">>, <<"config/config.json">> >>
            /\ present' = present \cup {"config/config.json"}
       ELSE /\ tests' = tests + 1
            /\ UNCHANGED <<found_files, present>>
    /\ pc' = "build"
    /\ UNCHANGED <<script, args, jqInstalled, dirExists, tree, outside,
                   WORKFLOW_PATH, ts_files, counts, info, stdout, exitCode,
                   jqChecks, finds, greps, errors, warnings>>

CheckConfig ==
    /\ pc = "config"
    /\ IF Exists("config/")
       THEN /\ tests' = tests + 2
            /\ IF Exists("config/config.json")
               THEN /\ found_files' = found_files
                                        \o << <<"config/">>, <<"config/config.json">> >>
                    /\ UNCHANGED warnings
               ELSE /\ found_files' = Append(found_files, <<"config/">>)
                    /\ warnings' = Append(warnings, MissingConfigJson)
       ELSE /\ tests' = tests + 1
            /\ UNCHANGED <<found_files, warnings>>
    /\ pc' = "build"
    /\ UNCHANGED <<validatorFrame, errors>>

ValidationReport(path, e, w, f) ==
    IF Len(e) = 0
    THEN [success |-> TRUE, valid |-> TRUE, path |-> path,
          found_files |-> JqArray(f), errors |-> <<>>,
          warnings |-> JqArray(w)]
    ELSE [success |-> TRUE, valid |-> FALSE, path |-> path,
          found_files |-> JqArray(f), errors |-> JqArray(e),
          warnings |-> JqArray(w)]

\* the report with exit 1 in the valid:false branch
BuildValidationReportFailing ==
    /\ pc = "build"
    /\ script = "validate-workflow"
    /\ stdout' = Append(stdout, ValidationReport(WORKFLOW_PATH, errors,
                                                 warnings, found_files))
    /\ exitCode' = IF Len(errors) = 0 THEN 0 ELSE 1
    /\ pc' = "done"
    /\ UNCHANGED <<env, WORKFLOW_PATH, ts_files, counts, warnings, info,
                   errors, found_files, jqChecks, finds, greps, tests>>

\* errors_json, warnings_json, files_json and the echo of either branch
BuildValidationReport ==
    /\ pc = "build"
    /\ script = "validate-workflow"
    /\ stdout' = Append(stdout, ValidationReport(WORKFLOW_PATH, errors,
                                                 warnings, found_files))
    /\ exitCode' = 0
    /\ pc' = "done"
    /\ UNCHANGED <<env, WORKFLOW_PATH, ts_files, counts, warnings, info,
                   errors, found_files, jqChecks, finds, greps, tests>>

(***************************************************************************)
(* simulate_workflow, in its two variants                                  *)
(***************************************************************************)
\* a one-word argument written in the script
Literal(x) == << <<x>> >>

\* the arguments the unquoted expansion of str hands to "cre workflow
\* simulate ."
CreArgv(str) ==
    <<Literal("workflow"), Literal("simulate"), Literal(".")>>
        \o SplitWords(str)

StatusLine(code) ==
    IF code = 0 THEN [line |-> <<"Simulation completed successfully">>]
    ELSE [line |-> <<"Simulation failed with exit code: ">> \o Digits(code)]

Separator == [line |-> <<"---">>]

\* WORKFLOW_PATH="${1:-.}"; shift; EXTRA_ARGS="$@"
ShiftArgs ==
    /\ pc = "shift"
    /\ WORKFLOW_PATH' = DefaultPath(args)
    /\ EXTRA_ARGS' = JoinArgs(extraArgs)
    /\ pc' = "cre-check"
    /\ UNCHANGED <<given, analysis, stdout, exitCode, docsFile, CMD_ARGS,
                   EXIT_CODE, creCalls, creChecks, curlRuns>>

\* the cre check without its exit 1: the failure is printed and the run goes on
CheckCreNoExit ==
    /\ pc = "cre-check"
    /\ script \in SimulateScripts
    /\ creChecks' = creChecks + 1
    /\ stdout' = IF creInstalled THEN stdout ELSE Append(stdout, CliMissing)
    /\ pc' = "path-check"
    /\ UNCHANGED <<given, analysis, WORKFLOW_PATH, exitCode, docsFile,
                   EXTRA_ARGS, CMD_ARGS, EXIT_CODE, creCalls, curlRuns>>

\* if ! command -v cre; then echo failure; exit 1; fi
CheckCre ==
    /\ pc = "cre-check"
    /\ script \in SimulateScripts
    /\ creChecks' = creChecks + 1
    /\ IF creInstalled
       THEN /\ pc' = "path-check"
            /\ UNCHANGED <<stdout, exitCode>>
       ELSE /\ stdout' = Append(stdout, CliMissing)
            /\ exitCode' = 1
            /\ pc' = "done"
    /\ UNCHANGED <<given, analysis, WORKFLOW_PATH, docsFile, EXTRA_ARGS,
                   CMD_ARGS, EXIT_CODE, creCalls, curlRuns>>

\* if [[ ! -d "$WORKFLOW_PATH" ]]; then echo failure; exit 1; fi
CheckPath ==
    /\ pc = "path-check"
    /\ tests' = tests + 1
    /\ IF dirExists
       THEN /\ pc' = IF script = "simulate-workflow-default"
                     THEN "build-args" ELSE "run"
            /\ UNCHANGED <<stdout, exitCode>>
       ELSE /\ stdout' = Append(stdout, PathNotFound(WORKFLOW_PATH))
            /\ exitCode' = 1
            /\ pc' = "done"
    /\ UNCHANGED <<given, ts_files, counts, warnings, info, errors,
                   found_files, jqChecks, finds, greps, WORKFLOW_PATH,
                   docsFile, EXTRA_ARGS, CMD_ARGS, EXIT_CODE, creCalls,
                   creChecks, curlRuns>>

\* the build of CMD_ARGS without its test: the default target always added
BuildArgsAlways ==
    /\ pc = "build-args"
    /\ CMD_ARGS' = WithDefaultTarget(EXTRA_ARGS)
    /\ pc' = "run"
    /\ UNCHANGED <<given, analysis, WORKFLOW_PATH, stdout, exitCode, docsFile,
                   EXTRA_ARGS, EXIT_CODE, creCalls, creChecks, curlRuns>>

\* the default-target variant: CMD_ARGS from EXTRA_ARGS
BuildArgs ==
    /\ pc = "build-args"
    /\ CMD_ARGS' = IF HasTargetText(EXTRA_ARGS) THEN EXTRA_ARGS
                   ELSE WithDefaultTarget(EXTRA_ARGS)
    /\ pc' = "run"
    /\ UNCHANGED <<given, analysis, WORKFLOW_PATH, stdout, exitCode, docsFile,
                   EXTRA_ARGS, EXIT_CODE, creCalls, creChecks, curlRuns>>

\* the command line with ";" in place of "&&": cre runs wherever the shell is
RunSimulationAnywhere ==
    LET str == IF script = "simulate-workflow-default" THEN CMD_ARGS
               ELSE EXTRA_ARGS
        running == [line |-> <<"Running: cre workflow simulate ">>,
                    path |-> WORKFLOW_PATH, args |-> str]
    IN  /\ pc = "run"
        /\ creCalls' = Append(creCalls, CreArgv(str))
        /\ stdout' = stdout \o <<running, Separator, [stream |-> "cre"]>>
        /\ EXIT_CODE' = creExit
        /\ pc' = "status"
        /\ UNCHANGED <<given, analysis, WORKFLOW_PATH, exitCode, docsFile,
                       EXTRA_ARGS, CMD_ARGS, creChecks, curlRuns>>

\* echo "Running: ..."; echo "---"; cd "$WORKFLOW_PATH" && cre workflow
\* simulate . $ARGS; EXIT_CODE=$?
RunSimulation ==
    LET str == IF script = "simulate-workflow-default" THEN CMD_ARGS
               ELSE EXTRA_ARGS
        running == [line |-> <<"Running: cre workflow simulate ">>,
                    path |-> WORKFLOW_PATH, args |-> str]
    IN  /\ pc = "run"
        /\ IF dirEnterable
           THEN /\ creCalls' = Append(creCalls, CreArgv(str))
                /\ stdout' = stdout \o <<running, Separator, [stream |-> "cre"]>>
                /\ EXIT_CODE' = creExit
           ELSE /\ stdout' = stdout \o <<running, Separator>>
                /\ EXIT_CODE' = 1
                /\ UNCHANGED creCalls
        /\ pc' = "status"
        /\ UNCHANGED <<given, analysis, WORKFLOW_PATH, exitCode, docsFile,
                       EXTRA_ARGS, CMD_ARGS, creChecks, curlRuns>>

\* the status report ending in a plain exit: the status of the last echo
ReportStatusPlainExit ==
    /\ pc = "status"
    /\ stdout' = stdout \o <<Separator, StatusLine(EXIT_CODE)>>
    /\ exitCode' = 0
    /\ pc' = "done"
    /\ UNCHANGED <<given, analysis, WORKFLOW_PATH, docsFile, EXTRA_ARGS,
                   CMD_ARGS, EXIT_CODE, creCalls, creChecks, curlRuns>>

\* echo "---"; the status line; exit $EXIT_CODE
ReportStatus ==
    /\ pc = "status"
    /\ stdout' = stdout \o <<Separator, StatusLine(EXIT_CODE)>>
    /\ exitCode' = EXIT_CODE
    /\ pc' = "done"
    /\ UNCHANGED <<given, analysis, WORKFLOW_PATH, docsFile, EXTRA_ARGS,
                   CMD_ARGS, EXIT_CODE, creCalls, creChecks, curlRuns>>

(***************************************************************************)
(* check_cli                                                               *)
(***************************************************************************)
CliReport(installed, versionOk) ==
    IF installed
    THEN [success |-> TRUE, installed |-> TRUE,
          version |-> IF versionOk THEN "cre --version" ELSE "unknown",
          location |-> "which cre"]
    ELSE [success |-> TRUE, installed |-> FALSE, error |-> CliNotFound,
          install_instructions |-> InstallInstructions]

\* check_cli failing the run when cre is not found
check_cliOrFail ==
    /\ pc = "check_cli"
    /\ creChecks' = creChecks + 1
    /\ creCalls' = IF creInstalled
                   THEN Append(creCalls, <<Literal("--version")>>)
                   ELSE creCalls
    /\ stdout' = Append(stdout, CliReport(creInstalled, creVersionOk))
    /\ exitCode' = IF creInstalled THEN 0 ELSE 1
    /\ pc' = "done"
    /\ UNCHANGED <<given, analysis, WORKFLOW_PATH, docsFile, EXTRA_ARGS,
                   CMD_ARGS, EXIT_CODE, curlRuns>>

check_cli ==
    /\ pc = "check_cli"
    /\ creChecks' = creChecks + 1
    /\ creCalls' = IF creInstalled
                   THEN Append(creCalls, <<Literal("--version")>>)
                   ELSE creCalls
    /\ stdout' = Append(stdout, CliReport(creInstalled, creVersionOk))
    /\ exitCode' = 0
    /\ pc' = "done"
    /\ UNCHANGED <<given, analysis, WORKFLOW_PATH, docsFile, EXTRA_ARGS,
                   CMD_ARGS, EXIT_CODE, curlRuns>>

(***************************************************************************)
(* fetch_docs                                                              *)
(***************************************************************************)
\* curl appending to the output file instead of replacing it
CurlAppends(old, outcome, bytes) ==
    IF outcome = "failed" THEN old
    ELSE IF old = NoFile THEN bytes ELSE old + bytes

\* curl --fail: a response with an error status ends the transfer with 22
CurlExitFailing(outcome, status) ==
    IF outcome = "ok" THEN (IF status >= 400 THEN 22 ELSE 0) ELSE 1

\* the exit status of curl -sSL: 0 for a transfer that ran to its end,
\* whatever the status of the response
CurlExit(outcome, status) == IF outcome = "ok" THEN 0 ELSE 1

\* curl -o: the output file after the transfer
CurlWrites(old, outcome, bytes) ==
    IF outcome = "failed" THEN old ELSE bytes

\* wc -c < "$OUTPUT_FILE"
WcBytes(file) == IF file = NoFile THEN 0 ELSE file

DocsReport(outcome, file) ==
    IF outcome = "ok"
    THEN [success |-> TRUE, file |-> OUTPUT_FILE,
          size_bytes |-> WcBytes(file), source |-> DOCS_URL]
    ELSE [success |-> FALSE,
          error |-> <<"Failed to fetch docs from ", DOCS_URL>>,
          file |-> "null"]

\* curl -sSL "$DOCS_URL" -o "$OUTPUT_FILE"
RunCurl ==
    /\ pc = "fetch_docs"
    /\ curlRuns' = curlRuns + 1
    /\ docsFile' = CurlWrites(docsFile, curlOutcome, bodyBytes)
    /\ pc' = "report"
    /\ UNCHANGED <<given, analysis, WORKFLOW_PATH, stdout, exitCode,
                   EXTRA_ARGS, CMD_ARGS, EXIT_CODE, creCalls, creChecks>>

\* the failure branch without its exit 1
ReportDocsNoExit ==
    /\ pc = "report"
    /\ stdout' = Append(stdout,
                        DocsReport(IF CurlExit(curlOutcome, httpStatus) = 0
                                   THEN "ok" ELSE "failed", docsFile))
    /\ exitCode' = 0
    /\ pc' = "done"
    /\ UNCHANGED <<given, analysis, WORKFLOW_PATH, docsFile, EXTRA_ARGS,
                   CMD_ARGS, EXIT_CODE, creCalls, creChecks, curlRuns>>

\* the two branches of the if: FILE_SIZE and the echo, or the echo and exit 1
ReportDocs ==
    /\ pc = "report"
    /\ stdout' = Append(stdout,
                        DocsReport(IF CurlExit(curlOutcome, httpStatus) = 0
                                   THEN "ok" ELSE "failed", docsFile))
    /\ exitCode' = IF CurlExit(curlOutcome, httpStatus) = 0 THEN 0 ELSE 1
    /\ pc' = "done"
    /\ UNCHANGED <<given, analysis, WORKFLOW_PATH, docsFile, EXTRA_ARGS,
                   CMD_ARGS, EXIT_CODE, creCalls, creChecks, curlRuns>>

(***************************************************************************)
(* get-chain-selector.sh                                                   *)
(***************************************************************************)
\* the two printf lines of the header
PrintHeader ==
    /\ pc = "header"
    /\ stdout' = stdout \o <<[line |-> <<"Chain", "String Name", "Numeric ID">>],
                             [line |-> <<"-----", "-----------", "----------">>]>>
    /\ pc' = "rows"
    /\ UNCHANGED <<given, analysis, WORKFLOW_PATH, exitCode, docsFile,
                   EXTRA_ARGS, CMD_ARGS, EXIT_CODE, creCalls, creChecks,
                   curlRuns>>

\* one iteration of the for loop; the script ends after the last one
PrintRow ==
    LET i == Len(stdout) - 1
    IN  /\ pc = "rows"
        /\ stdout' = Append(stdout, [line |-> <<chains[i]>>])
        /\ IF i = Len(chains)
           THEN pc' = "done" /\ exitCode' = 0
           ELSE pc' = "rows" /\ UNCHANGED exitCode
        /\ UNCHANGED <<given, analysis, WORKFLOW_PATH, docsFile, EXTRA_ARGS,
                       CMD_ARGS, EXIT_CODE, creCalls, creChecks, curlRuns>>

(***************************************************************************)
(* The lines of standard output                                            *)
(***************************************************************************)
\* jq -s . prints an array as "[", one line per element and "]"
JqSlurpLines(arr) == IF arr = <<>> THEN 1 ELSE Len(arr) + 2

\* the lines one echo or printf of the scripts puts on standard output
EchoLines(item) ==
    CASE "files_analyzed" \in DOMAIN item ->
             JqSlurpLines(item.warnings) + JqSlurpLines(item.info) - 1
      [] "valid" \in DOMAIN item ->
             JqSlurpLines(item.found_files) + JqSlurpLines(item.warnings)
               + (IF item.valid THEN 1 ELSE JqSlurpLines(item.errors)) - 2
      [] OTHER -> 1

(***************************************************************************)
(* The run of a script                                                     *)
(***************************************************************************)
Next ==
    \/ AssignPath
    \/ JqCheck
    \/ Find
    \/ \E c \in Categories : Count(c)
    \/ BuildLimitsReport
    \/ CheckWorkflowYaml
    \/ CheckEntryPoint
    \/ CheckPackageJson
    \/ CheckTsconfig
    \/ CheckConfig
    \/ BuildValidationReport
    \/ ShiftArgs
    \/ CheckCre
    \/ CheckPath
    \/ BuildArgs
    \/ RunSimulation
    \/ ReportStatus
    \/ check_cli
    \/ RunCurl
    \/ ReportDocs
    \/ PrintHeader
    \/ PrintRow

Spec == Init /\ [][Next]_vars

Done == pc = "done"

TypeOK ==
    /\ script \in Scripts
    /\ exitCode \in {-1} \cup ExitCodes
    /\ script \in JqScripts => Len(stdout) <= 1
    /\ Done <=> exitCode # -1

(***************************************************************************)
(* The handlers of the workflow templates.  One run of one handler is one  *)
(* behaviour of TemplateSpec; every await of a capability either returns   *)
(* or throws, and every call made is counted, also one that throws.        *)
(***************************************************************************)
\* Array.from({ length: 5 }, ...)
BatchSize == 5

\* "5 HTTP calls per execution" and "10 EVM read operations per execution"
HttpCallsPerExecution == 5
EvmReadsPerExecution == 10

Templates == {"http-trigger", "cron", "evm-log", "batch"}

\* what a sendRequest(...).result() can give: a 200 with a body JSON.parse
\* reads, a 200 with a body it rejects, and an error status
Responses ==
    { [statusCode |-> 200, parses |-> TRUE, totalToken |-> 1],
      [statusCode |-> 200, parses |-> TRUE, totalToken |-> 2],
      [statusCode |-> 200, parses |-> FALSE, totalToken |-> 0],
      [statusCode |-> 404, parses |-> FALSE, totalToken |-> 0] }

\* an entry of the reserves array: a number or NaN
Num(v) == [nan |-> FALSE, value |-> v]
NaN == [nan |-> TRUE, value |-> 0]

\* everything the handlers have no statement for
shell == <<script, args, jqInstalled, dirExists, tree, present,
           WORKFLOW_PATH, ts_files, counts, warnings, info, errors,
           found_files, stdout, exitCode, jqChecks, finds, greps, tests,
           extraArgs, creInstalled, creVersionOk, dirEnterable, creExit,
           curlOutcome, bodyBytes, httpStatus, docsBefore, docsFile,
           EXTRA_ARGS, CMD_ARGS, EXIT_CODE, creCalls, creChecks, curlRuns>>

\* the first statement of a handler
EntryOf(t) ==
    CASE t = "http-trigger" -> "trigger"
      [] t = "cron" -> "trigger"
      [] t = "evm-log" -> "trigger"
      [] t = "batch" -> "batch:send"

\* the statement after the trigger check
AfterTrigger(t) ==
    CASE t = "http-trigger" -> "http:body"
      [] t = "cron" -> "cron:secret"
      [] t = "evm-log" -> "log:decode"

TemplateInit ==
    /\ script \in Templates
    /\ pc = EntryOf(script)
    /\ args = <<>>
    /\ jqInstalled = TRUE
    /\ dirExists = TRUE
    /\ extraArgs = <<>>
    /\ creInstalled = TRUE
    /\ creVersionOk = TRUE
    /\ dirEnterable = TRUE
    /\ creExit = 0
    /\ curlOutcome = "ok"
    /\ bodyBytes = 0
    /\ httpStatus = 200
    /\ docsBefore = NoFile
    /\ docsFile = NoFile
    /\ EXTRA_ARGS = <<>>
    /\ CMD_ARGS = <<>>
    /\ EXIT_CODE = 0
    /\ creCalls = <<>>
    /\ creChecks = 0
    /\ curlRuns = 0
    /\ tree = NoTree
    /\ present = {}
    /\ WORKFLOW_PATH = ""
    /\ ts_files = <<>>
    /\ counts = [c \in Categories |-> 0]
    /\ warnings = <<>>
    /\ info = <<>>
    /\ errors = <<>>
    /\ found_files = <<>>
    /\ stdout = <<>>
    /\ exitCode = -1
    /\ jqChecks = 0
    /\ finds = 0
    /\ greps = 0
    /\ tests = 0
    /\ httpCalls = 0
    /\ evmReads = 0
    /\ evmWrites = 0
    /\ responses = <<>>
    /\ reserves = <<>>
    /\ emitted = 0

\* if (trigger.type !== "...") throw
CheckTrigger ==
    /\ pc = "trigger"
    /\ \E matches \in BOOLEAN :
          pc' = IF matches THEN AfterTrigger(script) ELSE "thrown"
    /\ UNCHANGED <<shell, handler>>

(***************************************************************************)
(* HTTP trigger template                                                   *)
(***************************************************************************)
\* if (!requestBody?.action) { runtime.emit({statusCode: 400 ...}); return }
HttpValidateBody ==
    /\ pc = "http:body"
    /\ \E hasAction \in BOOLEAN :
          IF hasAction
          THEN pc' = "http:secret" /\ UNCHANGED emitted
          ELSE pc' = "returned" /\ emitted' = 400
    /\ UNCHANGED <<shell, httpCalls, evmReads, evmWrites, responses, reserves>>

\* await runtime.getSecret("API_KEY")
HttpGetSecret ==
    /\ pc = "http:secret"
    /\ \E throws \in BOOLEAN :
          pc' = IF throws THEN "http:catch" ELSE "http:fetch"
    /\ UNCHANGED <<shell, handler>>

\* await httpClient.fetch(`${config.apiUrl}/process`, ...); emit 200
HttpFetch ==
    /\ pc = "http:fetch"
    /\ httpCalls' = httpCalls + 1
    /\ \E throws \in BOOLEAN :
          IF throws
          THEN pc' = "http:catch" /\ UNCHANGED emitted
          ELSE pc' = "returned" /\ emitted' = 200
    /\ UNCHANGED <<shell, evmReads, evmWrites, responses, reserves>>

\* catch (error) { ...; runtime.emit({statusCode: 500 ...}) }
HttpCatch ==
    /\ pc = "http:catch"
    /\ emitted' = 500
    /\ pc' = "returned"
    /\ UNCHANGED <<shell, httpCalls, evmReads, evmWrites, responses, reserves>>

(***************************************************************************)
(* Cron trigger template                                                   *)
(***************************************************************************)
\* await runtime.getSecret("METRICS_API_KEY")
CronGetSecret ==
    /\ pc = "cron:secret"
    /\ \E throws \in BOOLEAN :
          pc' = IF throws THEN "cron:catch" ELSE "cron:metrics"
    /\ UNCHANGED <<shell, handler>>

\* Step 1: await httpClient.fetch(`${config.apiEndpoint}/metrics/latest`)
CronFetchMetrics ==
    /\ pc = "cron:metrics"
    /\ httpCalls' = httpCalls + 1
    /\ \E throws \in BOOLEAN :
          pc' = IF throws THEN "cron:catch" ELSE "cron:read"
    /\ UNCHANGED <<shell, evmReads, evmWrites, responses, reserves, emitted>>

\* Step 2: await evmClient.readContract(...)
CronReadContract ==
    /\ pc = "cron:read"
    /\ evmReads' = evmReads + 1
    /\ \E throws \in BOOLEAN :
          pc' = IF throws THEN "cron:catch" ELSE "cron:compare"
    /\ UNCHANGED <<shell, httpCalls, evmWrites, responses, reserves, emitted>>

\* Steps 3 and 4: if (difference > config.alertThreshold)
CronCompare ==
    /\ pc = "cron:compare"
    /\ \E exceeded \in BOOLEAN :
          pc' = IF exceeded THEN "cron:alert-secret" ELSE "cron:log"
    /\ UNCHANGED <<shell, handler>>

\* await runtime.getSecret("ALERT_WEBHOOK_URL")
CronAlertSecret ==
    /\ pc = "cron:alert-secret"
    /\ \E throws \in BOOLEAN :
          pc' = IF throws THEN "cron:catch" ELSE "cron:alert"
    /\ UNCHANGED <<shell, handler>>

\* await httpClient.fetch(webhookUrl, ...)
CronSendAlert ==
    /\ pc = "cron:alert"
    /\ httpCalls' = httpCalls + 1
    /\ \E throws \in BOOLEAN :
          pc' = IF throws THEN "cron:catch" ELSE "cron:log"
    /\ UNCHANGED <<shell, evmReads, evmWrites, responses, reserves, emitted>>

\* Step 5: await httpClient.fetch(`${config.apiEndpoint}/metrics/log`, ...)
CronLogCompletion ==
    /\ pc = "cron:log"
    /\ httpCalls' = httpCalls + 1
    /\ \E throws \in BOOLEAN :
          pc' = IF throws THEN "cron:catch" ELSE "returned"
    /\ UNCHANGED <<shell, evmReads, evmWrites, responses, reserves, emitted>>

\* catch (error) { console.error(...); throw error }
CronCatch ==
    /\ pc = "cron:catch"
    /\ pc' = "thrown"
    /\ UNCHANGED <<shell, handler>>

(***************************************************************************)
(* EVM log trigger template                                                *)
(***************************************************************************)
\* Step 1: decodeTransferEvent(topics, data), inside the try
LogDecode ==
    /\ pc = "log:decode"
    /\ \E throws \in BOOLEAN :
          pc' = IF throws THEN "log:catch" ELSE "log:read"
    /\ UNCHANGED <<shell, handler>>

\* Step 2: await evmClient.readContract(... "isProcessed" ...) and the
\* return when it is true
LogReadContract ==
    /\ pc = "log:read"
    /\ evmReads' = evmReads + 1
    /\ \E result \in {"throws", "processed", "new"} :
          pc' = CASE result = "throws" -> "log:catch"
                  [] result = "processed" -> "returned"
                  [] result = "new" -> "log:validate"
    /\ UNCHANGED <<shell, httpCalls, evmWrites, responses, reserves, emitted>>

\* Step 3: if (transfer.value < minAmount) return
LogValidate ==
    /\ pc = "log:validate"
    /\ \E below \in BOOLEAN :
          pc' = IF below THEN "returned" ELSE "log:write"
    /\ UNCHANGED <<shell, handler>>

\* Step 4: await evmClient.writeContract(...)
LogWriteContract ==
    /\ pc = "log:write"
    /\ evmWrites' = evmWrites + 1
    /\ \E throws \in BOOLEAN :
          pc' = IF throws THEN "log:catch" ELSE "log:notify"
    /\ UNCHANGED <<shell, httpCalls, evmReads, responses, reserves, emitted>>

\* Step 5: if (config.notificationWebhook) await httpClient.fetch(...)
LogNotify ==
    /\ pc = "log:notify"
    /\ \E configured \in BOOLEAN, throws \in BOOLEAN :
          IF configured
          THEN /\ httpCalls' = httpCalls + 1
               /\ pc' = IF throws THEN "log:catch" ELSE "returned"
          ELSE /\ pc' = "returned"
               /\ UNCHANGED httpCalls
    /\ UNCHANGED <<shell, evmReads, evmWrites, responses, reserves, emitted>>

\* catch (error) { try { await httpClient.fetch(...) } catch {...}; throw }
LogCatch ==
    /\ pc = "log:catch"
    /\ httpCalls' = httpCalls + 1
    /\ pc' = "thrown"
    /\ UNCHANGED <<shell, evmReads, evmWrites, responses, reserves, emitted>>

(***************************************************************************)
(* Batched requests template: fetchData                                    *)
(***************************************************************************)
\* one call of the Array.from callback: sendRequester.sendRequest(...)
BatchSend ==
    /\ pc = "batch:send"
    /\ httpCalls' = httpCalls + 1
    /\ pc' = IF httpCalls' = BatchSize THEN "batch:await" ELSE "batch:send"
    /\ UNCHANGED <<shell, evmReads, evmWrites, responses, reserves, emitted>>

\* one iteration of the for loop with the NaN branch pushing nothing
BatchAwaitSkipping ==
    /\ pc = "batch:await"
    /\ \E r \in Responses :
          /\ responses' = Append(responses, r)
          /\ IF r.statusCode # 200
             THEN /\ UNCHANGED reserves
                  /\ pc' = IF Len(responses') = BatchSize
                           THEN "returned" ELSE "batch:await"
             ELSE IF ~r.parses
             THEN /\ UNCHANGED reserves
                  /\ pc' = "thrown"
             ELSE /\ reserves' = Append(reserves, Num(r.totalToken))
                  /\ pc' = IF Len(responses') = BatchSize
                           THEN "returned" ELSE "batch:await"
    /\ UNCHANGED <<shell, httpCalls, evmReads, evmWrites, emitted>>

\* one iteration of the for loop: req.result(), the NaN branch, JSON.parse
\* and the push; after the last one the return of the five fields
BatchAwait ==
    /\ pc = "batch:await"
    /\ \E r \in Responses :
          /\ responses' = Append(responses, r)
          /\ IF r.statusCode # 200
             THEN /\ reserves' = Append(reserves, NaN)
                  /\ pc' = IF Len(responses') = BatchSize
                           THEN "returned" ELSE "batch:await"
             ELSE IF ~r.parses
             THEN /\ UNCHANGED reserves
                  /\ pc' = "thrown"
             ELSE /\ reserves' = Append(reserves, Num(r.totalToken))
                  /\ pc' = IF Len(responses') = BatchSize
                           THEN "returned" ELSE "batch:await"
    /\ UNCHANGED <<shell, httpCalls, evmReads, evmWrites, emitted>>

(***************************************************************************)
(* The run of a handler                                                    *)
(***************************************************************************)
TemplateNext ==
    \/ CheckTrigger
    \/ HttpValidateBody
    \/ HttpGetSecret
    \/ HttpFetch
    \/ HttpCatch
    \/ CronGetSecret
    \/ CronFetchMetrics
    \/ CronReadContract
    \/ CronCompare
    \/ CronAlertSecret
    \/ CronSendAlert
    \/ CronLogCompletion
    \/ CronCatch
    \/ LogDecode
    \/ LogReadContract
    \/ LogValidate
    \/ LogWriteContract
    \/ LogNotify
    \/ LogCatch
    \/ BatchSend
    \/ BatchAwait

TemplateSpec == TemplateInit /\ [][TemplateNext]_vars

\* the handler returned or threw
Ended == pc \in {"returned", "thrown"}

(***************************************************************************)
(* Vocabulary of the properties                                            *)
(***************************************************************************)
\* the object the script printed
Report == stdout[Len(stdout)]

AnalyzerReported ==
    script = "analyze-limits" /\ Done /\ jqInstalled

ValidatorReported ==
    script = "validate-workflow" /\ Done /\ jqInstalled

DigitChars == {"0", "1", "2", "3", "4", "5", "6", "7", "8", "9"}

\* the fixed text of a message: its tokens that are not digits
TextOf(m) == SelectSeq(m, LAMBDA t : t \notin DigitChars)

IsWarningOf(c, m) == HasWarning(c) /\ TextOf(m) = TextOf(WarningMessage(c, 0))

IsInfoOf(c, m) == HasInfo(c) /\ TextOf(m) = TextOf(InfoMessage(c, 0))

\* how many entries of the list satisfy Is(c, _)
NumberOf(list, Is(_, _), c) ==
    Cardinality({k \in DOMAIN list : Is(c, list[k])})

\* the digits of n stand in m right after its first token, and the digits of
\* limit stand in the rest of m
EmbedsCountAndLimit(m, n, limit) ==
    /\ Len(m) > Len(Digits(n))
    /\ SubSeq(m, 2, 1 + Len(Digits(n))) = Digits(n)
    /\ Embeds(SubSeq(m, 2 + Len(Digits(n)), Len(m)), Digits(limit))

\* the files of the tree that find prints: *.ts and outside node_modules
Discovered == {f \in 1..MaxFiles : tree[f].ts /\ tree[f].where \in {"plain", "spaced"}}

\* the discovered files that grep reads
Scanned == {f \in Discovered : tree[f].where = "plain"}

\* lines of the scanned files that hold at least one pattern of category c
ScannedLines(c) ==
    SumFn([f \in Scanned |->
             SumFn([s \in Shapes |->
                      IF Occ(s, c) > 0 THEN tree[f].lines[s] ELSE 0])])

\* pattern occurrences of category c in the discovered files
DiscoveredOccurrences(c) ==
    SumFn([f \in Discovered |->
             SumFn([s \in Shapes |-> Occ(s, c) * tree[f].lines[s]])])

(***************************************************************************)
(* C1                                                                      *)
(***************************************************************************)
\* the fixed table: how many warnings and infos a count of n gives
C1_Table(c, n) ==
    CASE c = "http" ->
           [w |-> IF n > 5 THEN 1 ELSE 0, i |-> IF n >= 1 /\ n <= 5 THEN 1 ELSE 0]
      [] c = "evm" ->
           [w |-> IF n > 10 THEN 1 ELSE 0, i |-> IF n >= 1 /\ n <= 10 THEN 1 ELSE 0]
      [] c = "json" -> [w |-> IF n > 10 THEN 1 ELSE 0, i |-> 0]
      [] c = "loops" -> [w |-> IF n > 5 THEN 1 ELSE 0, i |-> 0]
      [] c = "logs" -> [w |-> IF n > 20 THEN 1 ELSE 0, i |-> 0]
      [] c = "secrets" -> [w |-> 0, i |-> IF n > 0 THEN 1 ELSE 0]

\* C1: once the six counts are taken, every category has put into the
\* warnings and info arrays exactly what the fixed table gives for its count
\* (HTTP >5 warning, 1..5 info; EVM >10 warning, 1..10 info; JSON >10, loops
\* >5, logs >20 warning only; secrets >0 info only), every message carries
\* the decimal count of its category, and the arrays hold nothing else.
C1_ClassifiedByTable ==
    (script = "analyze-limits" /\ pc \in {"build", "done"}
        /\ jqInstalled /\ ts_files # <<>>) =>
      /\ \A c \in Categories :
           /\ NumberOf(warnings, IsWarningOf, c) = C1_Table(c, counts[c]).w
           /\ NumberOf(info, IsInfoOf, c) = C1_Table(c, counts[c]).i
           /\ \A k \in DOMAIN warnings :
                IsWarningOf(c, warnings[k]) =>
                  Embeds(warnings[k], Digits(counts[c]))
           /\ \A k \in DOMAIN info :
                IsInfoOf(c, info[k]) => Embeds(info[k], Digits(counts[c]))
      /\ \A k \in DOMAIN warnings :
           \E c \in Categories : IsWarningOf(c, warnings[k])
      /\ \A k \in DOMAIN info : \E c \in Categories : IsInfoOf(c, info[k])

\* a finished run with an HTTP warning, an EVM info, a JSON warning, no loop
\* and no log message, and the secrets info
C1_Witness ==
    /\ script = "analyze-limits" /\ Done /\ jqInstalled
    /\ counts["http"] > 5
    /\ counts["evm"] \in 1..10
    /\ counts["json"] > 10
    /\ counts["loops"] \in 1..5
    /\ counts["logs"] = 20
    /\ counts["secrets"] > 0
    /\ Len(warnings) = 2
    /\ Len(info) = 2

(***************************************************************************)
(* C2                                                                      *)
(***************************************************************************)
\* C2: a report for 1..5 HTTP matches and no match of any other category has
\* an info list of exactly one entry, the HTTP call-site note, and a
\* warnings list of zero entries.
C2_OneInfoNoWarnings ==
    (AnalyzerReported /\ ts_files # <<>>
        /\ counts["http"] \in 1..5
        /\ \A c \in Categories \ {"http"} : counts[c] = 0) =>
      /\ Len(Report.info) = 1
      /\ IsInfoOf("http", Report.info[1])
      /\ Len(Report.warnings) = 0

(***************************************************************************)
(* C3                                                                      *)
(***************************************************************************)
\* C3 as stated: n > 5 occurrences of an HTTP indicator in the discovered
\* files, wherever they sit, give a warning that embeds n and the limit 5
\* (stated here for the trees in which grep reads every discovered file).
C3_WarningPerOccurrence ==
    (AnalyzerReported /\ Discovered = Scanned
        /\ DiscoveredOccurrences("http") > 5) =>
      \E k \in DOMAIN Report.warnings :
        /\ IsWarningOf("http", Report.warnings[k])
        /\ EmbedsCountAndLimit(Report.warnings[k],
                               DiscoveredOccurrences("http"), 5)

\* C3 amended: when n > 5 lines of the files grep reads hold at least one
\* HTTP indicator, the report has a warning that embeds n and the limit 5;
\* several occurrences on one line count as one.
C3_WarningPerLine ==
    (AnalyzerReported /\ ScannedLines("http") > 5) =>
      \E k \in DOMAIN Report.warnings :
        /\ IsWarningOf("http", Report.warnings[k])
        /\ EmbedsCountAndLimit(Report.warnings[k], ScannedLines("http"), 5)

\* six matching lines, one of them with two occurrences, reported as 6
C3_Witness ==
    /\ AnalyzerReported
    /\ ScannedLines("http") = 6
    /\ DiscoveredOccurrences("http") = 7
    /\ Report.warnings[1] = WarningMessage("http", 6)

(***************************************************************************)
(* C4                                                                      *)
(***************************************************************************)
\* C4: when no *.ts file lies under the target outside node_modules, the
\* analyzer (jq being installed) prints success with warnings = [] and info
\* holding exactly "No TypeScript files found", exits 0, and has run no grep.
C4_NoFilesNoCounting ==
    (AnalyzerReported
        /\ \A f \in 1..MaxFiles :
             ~(tree[f].ts /\ tree[f].where # "node_modules"
                          /\ tree[f].where # "absent")) =>
      /\ Len(stdout) = 1
      /\ Report.success = TRUE
      /\ Report.warnings = <<>>
      /\ Report.info = <<NoFilesMessage>>
      /\ exitCode = 0
      /\ greps = 0
      /\ counts = [c \in Categories |-> 0]

\* a finished run over a tree whose only *.ts file lies in node_modules
C4_Witness ==
    /\ AnalyzerReported
    /\ finds = 1
    /\ tree[1].where = "node_modules" /\ tree[1].ts
    /\ \A f \in 2..MaxFiles : ~tree[f].ts
    /\ Report.info = <<NoFilesMessage>>

(***************************************************************************)
(* C5                                                                      *)
(***************************************************************************)
\* C5: every report of a successful run of the analyzer has the five fields
\* success, path, warnings, info and files_analyzed, and files_analyzed is
\* the number of files the scan discovered.
C5_FiveFields ==
    (AnalyzerReported /\ exitCode = 0) =>
      /\ DOMAIN Report = {"success", "path", "warnings", "info",
                          "files_analyzed"}
      /\ Report.path = WORKFLOW_PATH
      /\ Report.files_analyzed = Cardinality(Discovered)

(***************************************************************************)
(* C6                                                                      *)
(***************************************************************************)
\* C6: when jq is absent, either script ends having printed exactly the
\* failure object {success:false, error:...}, with a non-zero exit code, and
\* without having run find, grep or any -f / -d test; on every run the jq
\* check is made at most once, and exactly once by the time the run ends.
C6_JqMissingFailsFirst ==
    /\ jqChecks <= 1
    /\ (Done /\ script \in JqScripts) => jqChecks = 1
    /\ (Done /\ script \in JqScripts /\ ~jqInstalled) =>
         /\ stdout = <<JqMissing>>
         /\ DOMAIN Report = {"success", "error"}
         /\ Report.success = FALSE
         /\ exitCode # 0
         /\ finds = 0 /\ greps = 0 /\ tests = 0
         /\ ts_files = <<>> /\ errors = <<>> /\ found_files = <<>>

\* the validator, ended by the missing jq in a directory that holds a
\* complete workflow
C6_Witness ==
    /\ script = "validate-workflow" /\ Done /\ ~jqInstalled
    /\ present = ValidatorPaths
    /\ jqChecks = 1
    /\ exitCode = 1

(***************************************************************************)
(* C7                                                                      *)
(***************************************************************************)
\* C7 as stated: the validator exits with code 0 on every invocation.
C7_AlwaysExitsZero ==
    (script = "validate-workflow" /\ Done) => exitCode = 0

\* C7 amended: the validator exits with code 0 on every invocation in which
\* jq is installed, also when its report says valid:false.
C7_ExitsZeroWithJq ==
    (script = "validate-workflow" /\ Done /\ jqInstalled) =>
      /\ exitCode = 0
      /\ Len(stdout) = 1
      /\ Report.success = TRUE

\* a finished validation that reports valid:false and exits 0
C7_Witness ==
    /\ ValidatorReported
    /\ Report.valid = FALSE
    /\ exitCode = 0

(***************************************************************************)
(* C8                                                                      *)
(***************************************************************************)
\* C8: for a directory with workflow.yaml but neither src/index.ts nor
\* index.ts the validator reports valid:false, an errors list of exactly one
\* entry, the missing-entry-point error, and exits 0.
C8_OnlyEntryPointMissing ==
    (ValidatorReported /\ dirExists /\ "workflow.yaml" \in present
        /\ "src/index.ts" \notin present /\ "index.ts" \notin present) =>
      /\ Report.valid = FALSE
      /\ Report.errors = <<MissingEntryPoint>>
      /\ exitCode = 0

\* such a directory, validated
C8_Witness ==
    /\ ValidatorReported
    /\ present = {"workflow.yaml"}
    /\ Len(Report.errors) = 1

(***************************************************************************)
(* C9                                                                      *)
(***************************************************************************)
HasEntryPoint == "src/index.ts" \in present \/ "index.ts" \in present

\* C9 as stated: with an entry point and workflow.yaml but no package.json
\* the validator reports valid:true and a warnings list of exactly one entry.
C9_ExactlyOneWarning ==
    (ValidatorReported /\ "workflow.yaml" \in present /\ HasEntryPoint
        /\ "package.json" \notin present) =>
      /\ Report.valid = TRUE
      /\ Len(Report.warnings) = 1

\* C9 amended: with an entry point and workflow.yaml but no package.json the
\* validator reports valid:true and a warnings list that starts with the
\* package.json warning; a missing tsconfig.json and a config/ directory
\* without config.json add one warning each, so the list has exactly one
\* entry when tsconfig.json exists and config/ is absent or complete.
C9_PackageWarningFirst ==
    (ValidatorReported /\ "workflow.yaml" \in present /\ HasEntryPoint
        /\ "package.json" \notin present) =>
      /\ Report.valid = TRUE
      /\ Report.errors = <<>>
      /\ Report.warnings[1] = MissingPackageJson
      /\ Len(Report.warnings) =
           1 + (IF "tsconfig.json" \in present THEN 0 ELSE 1)
             + (IF "config/" \in present /\ "config/config.json" \notin present
                THEN 1 ELSE 0)

\* the directory of the claim with tsconfig.json in place: one warning
C9_Witness ==
    /\ ValidatorReported
    /\ present = {"workflow.yaml", "index.ts", "tsconfig.json"}
    /\ Report.valid = TRUE
    /\ Report.warnings = <<MissingPackageJson>>

(***************************************************************************)
(* C10                                                                     *)
(***************************************************************************)
\* C10 as stated: for a nonexistent directory the validator reports
\* success:true, valid:false, and its validation error is the
\* missing-entry-point error.
C10_EntryPointErrorOnly ==
    (ValidatorReported /\ ~dirExists) =>
      /\ Report.success = TRUE
      /\ Report.valid = FALSE
      /\ Report.errors = <<MissingEntryPoint>>

\* C10 amended: for a nonexistent directory the validator does not fail as a
\* script (exit code 0, success:true); it reports valid:false, and its
\* validation errors are the missing-workflow.yaml error followed by the
\* missing-entry-point error.
C10_MissingDirIsValidationError ==
    (ValidatorReported /\ ~dirExists) =>
      /\ exitCode = 0
      /\ Report.success = TRUE
      /\ Report.valid = FALSE
      /\ Report.errors = <<MissingWorkflowYaml, MissingEntryPoint>>

\* a finished validation of a nonexistent directory
C10_Witness ==
    /\ ValidatorReported
    /\ ~dirExists
    /\ tests = 6
    /\ Len(Report.errors) = 2

(***************************************************************************)
(* Vocabulary of the properties of simulate-workflow.sh                    *)
(***************************************************************************)
\* a finished run of the wrapper in which cre was run
SimulationRan == script \in SimulateScripts /\ Done /\ creCalls # <<>>

\* the arguments cre got after "workflow simulate ."
Forwarded == SubSeq(creCalls[1], 4, Len(creCalls[1]))

DefaultTargetPair == <<TargetFlag, <<DEFAULT_TARGET>> >>

\* some extra argument is the --target flag
UserGaveTarget == \E i \in DOMAIN extraArgs : extraArgs[i] = TargetFlag

\* every extra argument is one word
OneWordArgs == \A i \in DOMAIN extraArgs : Len(extraArgs[i]) = 1

(***************************************************************************)
(* C11                                                                     *)
(***************************************************************************)
\* C11: in both variants of the wrapper, whenever cre was run, it was run
\* once and the wrapper's exit code is the exit code of that run.
C11_ExitCodePropagated ==
    SimulationRan =>
      /\ Len(creCalls) = 1
      /\ exitCode = creExit

\* the default-target variant ending with the status 255 of cre
C11_Witness ==
    /\ SimulationRan
    /\ script = "simulate-workflow-default"
    /\ creExit = 255
    /\ exitCode = 255

(***************************************************************************)
(* C12                                                                     *)
(***************************************************************************)
\* C12: in the default-target variant, when an extra argument is the --target
\* flag, cre is handed the user's --target flags, each followed by the value
\* the user gave it, and no --target staging-settings.
C12_UserTargetKept ==
    (SimulationRan /\ script = "simulate-workflow-default" /\ UserGaveTarget) =>
      /\ Cardinality({k \in DOMAIN Forwarded : Forwarded[k] = TargetFlag})
           = Cardinality({i \in DOMAIN extraArgs : extraArgs[i] = TargetFlag})
      /\ \A i \in 1..(Len(extraArgs) - 1) :
           extraArgs[i] = TargetFlag =>
             \E k \in 1..(Len(Forwarded) - 1) :
                /\ Forwarded[k] = TargetFlag
                /\ Forwarded[k + 1] = extraArgs[i + 1]
      /\ \A k \in DOMAIN Forwarded : Forwarded[k] # <<DEFAULT_TARGET>>

(***************************************************************************)
(* C13                                                                     *)
(***************************************************************************)
\* C13: in the default-target variant, when no extra argument is the --target
\* flag, cre is handed --target staging-settings followed by the extra
\* arguments, also when an extra argument holds the text "--target" inside
\* another flag (stated here for extra arguments of one word each).
C13_DefaultTargetAdded ==
    (SimulationRan /\ script = "simulate-workflow-default"
        /\ ~UserGaveTarget /\ OneWordArgs) =>
      Forwarded = DefaultTargetPair \o extraArgs

(***************************************************************************)
(* C14                                                                     *)
(***************************************************************************)
\* C14: the wrapper hands cre every extra argument as one argument, in the
\* order given and with its content intact: what follows "workflow simulate
\* ." is the extra-argument list, preceded by the default target pair only
\* when that was injected.
C14_ArgumentsIntact ==
    SimulationRan =>
      \/ Forwarded = extraArgs
      \/ /\ script = "simulate-workflow-default"
         /\ ~HasTargetText(JoinArgs(extraArgs))
         /\ Forwarded = DefaultTargetPair \o extraArgs

(***************************************************************************)
(* C15                                                                     *)
(***************************************************************************)
\* C15: when cre is absent or the workflow path is no directory, the wrapper
\* prints one {success:false, error:...} object, exits 1 and never runs cre;
\* the cre check comes first, so with both missing the error is the missing
\* CLI and the path is not tested; cre is run at most once on any run.
C15_PreconditionsFailFirst ==
    script \in SimulateScripts =>
      /\ Len(creCalls) <= 1
      /\ creChecks <= 1
      /\ (Done /\ ~creInstalled) =>
           /\ stdout = <<CliMissing>>
           /\ exitCode = 1
           /\ creCalls = <<>>
           /\ tests = 0
      /\ (Done /\ creInstalled /\ ~dirExists) =>
           /\ stdout = <<PathNotFound(WORKFLOW_PATH)>>
           /\ exitCode = 1
           /\ creCalls = <<>>

\* a finished run with neither the CLI nor the directory
C15_Witness ==
    /\ script \in SimulateScripts /\ Done
    /\ ~creInstalled /\ ~dirExists
    /\ Report = CliMissing

(***************************************************************************)
(* C16                                                                     *)
(***************************************************************************)
\* C16: check-cre-cli.sh always prints one object with success true and
\* exits 0; installed is true exactly when cre is on the PATH, and when it is
\* false the object carries the fixed error and installation instructions
\* and neither version nor location.
C16_CliCheckAlwaysSucceeds ==
    (script = "check-cre-cli" /\ Done) =>
      /\ Len(stdout) = 1
      /\ Report.success = TRUE
      /\ exitCode = 0
      /\ Report.installed = creInstalled
      /\ creInstalled => {"version", "location"} \subseteq DOMAIN Report
      /\ ~creInstalled =>
           /\ DOMAIN Report
                = {"success", "installed", "error", "install_instructions"}
           /\ Report.error = CliNotFound
           /\ Report.install_instructions = InstallInstructions

\* a finished check on a machine without cre
C16_Witness ==
    /\ script = "check-cre-cli" /\ Done
    /\ ~creInstalled
    /\ Report.installed = FALSE
    /\ exitCode = 0

(***************************************************************************)
(* C17                                                                     *)
(***************************************************************************)
DependencyAbsent ==
    \/ script \in JqScripts /\ ~jqInstalled
    \/ script \in SimulateScripts /\ ~creInstalled

TargetPathMissing ==
    script \in JqScripts \cup SimulateScripts /\ ~dirExists

WrappedCommandFailed == SimulationRan /\ creExit # 0

\* C17 as stated: a finished run has a non-zero exit code whenever a required
\* dependency is absent, the target path does not exist or the wrapped
\* command exited non-zero.
C17_NonZeroOnEveryFailure ==
    (Done /\ (DependencyAbsent \/ TargetPathMissing \/ WrappedCommandFailed))
      => exitCode # 0

\* what makes a run of each script end non-zero
Fails ==
    CASE script \in JqScripts -> ~jqInstalled
      [] script \in SimulateScripts ->
             ~creInstalled \/ ~dirExists \/ ~dirEnterable \/ creExit # 0
      [] script = "fetch-docs" -> curlOutcome # "ok"
      [] OTHER -> FALSE

\* C17 amended: the exit code is non-zero exactly when jq is absent (analyzer,
\* validator), when cre is absent, the path is no directory, the directory
\* cannot be entered or cre exits non-zero (wrapper), or when the fetch
\* fails; in particular a missing target path leaves the analyzer and the
\* validator at exit 0, and so does a missing cre the CLI check.
C17_ExitCodes ==
    Done => (exitCode # 0 <=> Fails)

\* the analyzer or validator finishing with 0 on a path that does not exist
C17_Witness ==
    /\ Done /\ script \in JqScripts
    /\ jqInstalled /\ ~dirExists
    /\ exitCode = 0

(***************************************************************************)
(* C18                                                                     *)
(***************************************************************************)
\* C18: every script other than the simulation wrapper prints exactly one
\* line on standard output, a JSON object with a boolean success field.
C18_OneJsonLine ==
    (Done /\ script \notin SimulateScripts) =>
      /\ Len(stdout) = 1
      /\ EchoLines(Report) = 1
      /\ "success" \in DOMAIN Report
      /\ Report.success \in BOOLEAN

(***************************************************************************)
(* C19                                                                     *)
(***************************************************************************)
\* C19: fetch-docs.sh runs curl once, from the fixed URL to the fixed file;
\* on success it reports success true, the file path and the byte length of
\* the file and exits 0; on failure it reports success false, an error
\* naming the URL and file null, exits non-zero and does not retry.
C19_OneFetch ==
    script = "fetch-docs" =>
      /\ curlRuns <= 1
      /\ Done =>
           /\ curlRuns = 1
           /\ Len(stdout) = 1
           /\ IF curlOutcome = "ok"
              THEN /\ Report.success = TRUE
                   /\ Report.file = OUTPUT_FILE
                   /\ Report.source = DOCS_URL
                   /\ Report.size_bytes = docsFile
                   /\ docsFile = bodyBytes
                   /\ exitCode = 0
              ELSE /\ Report.success = FALSE
                   /\ Embeds(Report.error, <<DOCS_URL>>)
                   /\ Report.file = "null"
                   /\ exitCode # 0

\* a failed fetch, reported and ended with a non-zero code
C19_Witness ==
    /\ script = "fetch-docs" /\ Done
    /\ curlOutcome # "ok"
    /\ Report.success = FALSE
    /\ exitCode = 1

C21_TargetUntouched ==
    [][(script \in JqScripts) =>
         (tree' = tree /\ present' = present /\ dirExists' = dirExists)]_vars

\* a finished scan that read files, and left them as they were
C21_Witness ==
    /\ AnalyzerReported
    /\ Scanned # {}
    /\ greps = 6
    /\ tree \in Trees

(***************************************************************************)
(* C22                                                                     *)
(***************************************************************************)
\* lines of the discovered files that hold at least one pattern of category c
DiscoveredLines(c) ==
    SumFn([f \in Discovered |->
             SumFn([s \in Shapes |->
                      IF Occ(s, c) > 0 THEN tree[f].lines[s] ELSE 0])])

\* C22: after the six greps each category count is the number of lines, over
\* all discovered *.ts files outside node_modules, that hold at least one
\* pattern of the category; a line with several patterns of one category
\* counts once, and a line counts for every category it has a pattern of.
C22_CountsLinesOfDiscovered ==
    (AnalyzerReported /\ greps = 6) =>
      \A c \in Categories : counts[c] = DiscoveredLines(c)

(***************************************************************************)
(* C23                                                                     *)
(***************************************************************************)
InList(list, m) == \E k \in DOMAIN list : list[k] = m

\* C23: the validator reports valid:true exactly when workflow.yaml and one
\* of src/index.ts, index.ts exist; a missing package.json, tsconfig.json or
\* config.json inside an existing config/ appears as a warning and never as
\* an error, and a missing config/ appears in neither list.
C23_ValidIffRequiredFiles ==
    ValidatorReported =>
      /\ Report.valid = ("workflow.yaml" \in present /\ HasEntryPoint)
      /\ \A k \in DOMAIN Report.errors :
           Report.errors[k] \in {MissingWorkflowYaml, MissingEntryPoint}
      /\ InList(Report.warnings, MissingPackageJson)
           <=> "package.json" \notin present
      /\ InList(Report.warnings, MissingTsconfig)
           <=> "tsconfig.json" \notin present
      /\ InList(Report.warnings, MissingConfigJson)
           <=> ("config/" \in present /\ "config/config.json" \notin present)
      /\ \A k \in DOMAIN Report.warnings :
           Report.warnings[k] \in {MissingPackageJson, MissingTsconfig,
                                   MissingConfigJson, <<>>}

\* a valid workflow with none of the recommended files and no config/
C23_Witness ==
    /\ ValidatorReported
    /\ present = {"workflow.yaml", "src/index.ts"}
    /\ Report.valid = TRUE
    /\ Report.warnings = <<MissingPackageJson, MissingTsconfig>>

(***************************************************************************)
(* C24                                                                     *)
(***************************************************************************)
\* C24: a finished run of either variant of the wrapper has the precondition
\* failure, the cre call, the exit code and the forwarded arguments given
\* below.  Only the words the default-target variant puts first depend on the
\* variant, and they are empty when the extra arguments hold the text
\* "--target": there the two variants agree; elsewhere the default-target
\* variant passes --target staging-settings ahead of the arguments the plain
\* variant passes, which hold no target flag.
C24_VariantsAgree ==
    (script \in SimulateScripts /\ Done) =>
      LET text == HasTargetText(JoinArgs(extraArgs))
          first == IF script = "simulate-workflow-default" /\ ~text
                   THEN DefaultTargetPair ELSE <<>>
          runs == creInstalled /\ dirExists /\ dirEnterable
      IN  /\ (creCalls # <<>>) = runs
          /\ exitCode = IF runs THEN creExit ELSE 1
          /\ ~creInstalled => stdout = <<CliMissing>>
          /\ (creInstalled /\ ~dirExists) =>
               stdout = <<PathNotFound(DefaultPath(args))>>
          /\ runs => /\ Len(creCalls) = 1
                     /\ Forwarded = first \o SplitWords(JoinArgs(extraArgs))
          /\ (runs /\ ~text /\ script = "simulate-workflow") =>
               \A k \in DOMAIN Forwarded : Forwarded[k] # TargetFlag

\* the default-target variant handing on the user's --target and nothing else
C24_Witness ==
    /\ SimulationRan
    /\ script = "simulate-workflow-default"
    /\ extraArgs = <<TargetFlag, TargetValue>>
    /\ Forwarded = extraArgs

(***************************************************************************)
(* C25                                                                     *)
(***************************************************************************)
\* the entries of a list that are messages: jq turns the empty line printf
\* prints for an empty array into an empty string
RealMessages(list) == SelectSeq(list, LAMBDA m : m # <<>>)

WarningOrder == <<"http", "evm", "json", "loops", "logs">>
InfoOrder == <<"http", "evm", "secrets">>

\* every entry of the list is the message of one category of the order, and
\* the categories follow each other as in the order
InOrder(list, Is(_, _), order) ==
    LET CatAt(i) == CHOOSE k \in DOMAIN order : Is(order[k], list[i])
    IN  /\ \A i \in DOMAIN list : \E k \in DOMAIN order : Is(order[k], list[i])
        /\ \A i, j \in DOMAIN list : i < j => CatAt(i) < CatAt(j)

\* C25: in every report of the analyzer the HTTP category and the EVM
\* category each have a message in at most one of the two lists; the
\* warnings list has at most 5 messages and the info list at most 3; after
\* the six greps the warnings follow the order HTTP, EVM, JSON, loops, logs
\* and the infos the order HTTP, EVM, secrets.
C25_ListsBoundedAndOrdered ==
    AnalyzerReported =>
      LET w == RealMessages(Report.warnings)
          i == RealMessages(Report.info)
      IN  /\ \A c \in {"http", "evm"} :
                NumberOf(w, IsWarningOf, c) + NumberOf(i, IsInfoOf, c) <= 1
          /\ Len(w) <= 5
          /\ Len(i) <= 3
          /\ IF "files_analyzed" \in DOMAIN Report
             THEN /\ InOrder(w, IsWarningOf, WarningOrder)
                  /\ InOrder(i, IsInfoOf, InfoOrder)
             ELSE w = <<>> /\ i = <<NoFilesMessage>>

\* a report with all five warnings
C25_Witness ==
    /\ AnalyzerReported
    /\ Len(RealMessages(Report.warnings)) = 5
    /\ IsWarningOf("http", Report.warnings[1])
    /\ IsWarningOf("logs", Report.warnings[5])

(***************************************************************************)
(* C26                                                                     *)
(***************************************************************************)
\* the workflow directory of the project structure in SKILL.md
DocumentedLayout == {"package.json", "tsconfig.json", "workflow.yaml", "main.ts"}

\* C26: found_files names at most one entry point, src/index.ts when it
\* exists and index.ts only when src/index.ts does not; without either the
\* report is valid:false with the missing-entry-point error, whatever other
\* file is there: the documented layout with main.ts is reported valid:false
\* with exactly that error.
C26_OnlyIndexTsAccepted ==
    ValidatorReported =>
      /\ InList(Report.found_files, <<"src/index.ts">>)
           <=> "src/index.ts" \in present
      /\ InList(Report.found_files, <<"index.ts">>)
           <=> ("index.ts" \in present /\ "src/index.ts" \notin present)
      /\ ~InList(Report.found_files, <<"main.ts">>)
      /\ ~HasEntryPoint =>
           /\ Report.valid = FALSE
           /\ InList(Report.errors, MissingEntryPoint)
      /\ present = DocumentedLayout =>
           /\ Report.valid = FALSE
           /\ Report.errors = <<MissingEntryPoint>>

\* the documented layout, validated
C26_Witness ==
    /\ ValidatorReported
    /\ present = DocumentedLayout
    /\ Report.valid = FALSE

(***************************************************************************)
(* C27                                                                     *)
(***************************************************************************)
\* C27: the fetcher reports success:true exactly when the transfer ran to
\* its end (curl exits 0), whatever the status of the response: the body of
\* an error response is stored and reported with its size; after a failed
\* transfer the output file holds what curl wrote, or what it held before
\* when curl wrote nothing.
C27_SuccessIsCurlExit ==
    (script = "fetch-docs" /\ Done) =>
      /\ Report.success = (curlOutcome = "ok")
      /\ curlOutcome = "ok" =>
           /\ docsFile = bodyBytes
           /\ Report.size_bytes = bodyBytes
           /\ exitCode = 0
      /\ curlOutcome = "failed-partial" => docsFile = bodyBytes
      /\ curlOutcome = "failed" => docsFile = docsBefore

\* an error page fetched, stored and reported as a success
C27_Witness ==
    /\ script = "fetch-docs" /\ Done
    /\ curlOutcome = "ok" /\ httpStatus = 404
    /\ bodyBytes = MaxBytes
    /\ Report.success = TRUE
    /\ Report.size_bytes = MaxBytes

(***************************************************************************)
(* C28                                                                     *)
(***************************************************************************)
\* C28: a finished run of the wrapper that passed both checks printed, in
\* this order, the Running line, "---", the output of cre, "---" and one
\* status line, which is "Simulation completed successfully" exactly when the
\* exit code is 0 and names the exit code otherwise; when the directory
\* cannot be entered cre is not run, nothing stands between the two
\* separators and the run ends as failed with a non-zero exit code.
C28_OutputOrder ==
    (script \in SimulateScripts /\ Done /\ creInstalled /\ dirExists) =>
      LET n == Len(stdout)
          dashes == [line |-> <<"---">>]
          completed == [line |-> <<"Simulation completed successfully">>]
          failedWith == [line |-> <<"Simulation failed with exit code: ">>
                                     \o Digits(exitCode)]
      IN  /\ n >= 4
          /\ "line" \in DOMAIN stdout[1]
          /\ stdout[1].line = <<"Running: cre workflow simulate ">>
          /\ stdout[2] = dashes
          /\ IF dirEnterable
             THEN /\ n = 5
                  /\ stdout[3] = [stream |-> "cre"]
                  /\ Len(creCalls) = 1
             ELSE /\ n = 4
                  /\ creCalls = <<>>
                  /\ exitCode # 0
          /\ stdout[n - 1] = dashes
          /\ stdout[n] = IF exitCode = 0 THEN completed ELSE failedWith
          /\ (stdout[n] = completed) = (exitCode = 0)

\* a run whose cd failed
C28_Witness ==
    /\ script \in SimulateScripts /\ Done
    /\ creInstalled /\ dirExists /\ ~dirEnterable
    /\ Len(stdout) = 4
    /\ exitCode = 1

(***************************************************************************)
(* C29                                                                     *)
(***************************************************************************)
\* C29: at every point of every run, the cron handler has made at most 3
\* HTTP calls and 1 EVM read, the HTTP-trigger handler at most 1 HTTP call,
\* the EVM-log handler at most 2 HTTP calls, 1 EVM read and 1 EVM write;
\* fetchData has sent all 5 requests before it awaits the first result and
\* sends no more, and when it returns, reserve i is the totalToken of
\* response i, or NaN when the status of response i is not 200; no handler
\* makes more than 5 HTTP calls or 10 EVM reads.
C29_WithinLimits ==
    /\ script = "cron" =>
         httpCalls <= 3 /\ evmReads <= 1 /\ evmWrites = 0
    /\ script = "http-trigger" =>
         httpCalls <= 1 /\ evmReads = 0 /\ evmWrites = 0
    /\ script = "evm-log" =>
         httpCalls <= 2 /\ evmReads <= 1 /\ evmWrites <= 1
    /\ script = "batch" =>
         /\ (responses # <<>> \/ Ended) => httpCalls = 5
         /\ evmReads = 0 /\ evmWrites = 0
         /\ pc = "returned" =>
              /\ Len(reserves) = 5
              /\ Len(responses) = 5
              /\ \A i \in 1..5 :
                   reserves[i] = IF responses[i].statusCode = 200
                                 THEN Num(responses[i].totalToken)
                                 ELSE NaN
    /\ script \in Templates =>
         /\ httpCalls <= HttpCallsPerExecution
         /\ evmReads <= EvmReadsPerExecution

\* fetchData returning with an error status on the second of its five results
C29_Witness ==
    /\ script = "batch"
    /\ pc = "returned"
    /\ responses[1].statusCode = 200
    /\ responses[2].statusCode = 404
    /\ reserves[2] = NaN
    /\ reserves[3] = Num(2)

====
